---- MODULE Spec2Model ----
(***************************************************************************)
(* Capability-scoped sandbox launcher of SpendWise                         *)
(* (mcp_sandbox_openai_sdk.sandbox.SandboxedMCPStdio and its callers).     *)
(*                                                                         *)
(* A Python str is modelled as a sequence of non-empty text tokens, so     *)
(* that f-string formatting and ",".join really build a value that can be  *)
(* split again: "a.com:443,b.com:443" is <<"a.com",":","443",",",...>>.    *)
(* A list of str (the docker argument vector) is a sequence of such        *)
(* sequences.  Python's None is the atom None; str(None) is "None".        *)
(***************************************************************************)
EXTENDS Integers, Sequences, FiniteSets, TLC

\* ------------------------------------------------------------------ bounds
\* longest runtime_permissions list a caller passes
MaxPerms == 2

\* ------------------------------------------------------- values and inputs
None == "<None>"

\* Permission enum members used by the manifests
Permission ==
    {"MCP_AC_NETWORK_CLIENT", "MCP_AC_FILESYSTEM_READ",
     "MCP_AC_FILESYSTEM_WRITE", "MCP_AC_SYSTEM_ENV_READ"}

\* DomainPort(domain=..., port=...)
DomainPort ==
    {[kind |-> "DomainPort", domain |-> d, port |-> 443] : d \in {"api.twilio.com"}}

\* HostPort(host=IPv4Address(...), port=...)
HostPort ==
    {[kind |-> "HostPort", host |-> h, port |-> 443] : h \in {"3.72.68.174"}}

\* FSAccess(path=..., write=..., container_path=...)
FSAccess ==
    {[kind |-> "FSAccess", path |-> "/data", write |-> w, container_path |-> c] :
        <<w, c>> \in {<<FALSE, None>>, <<TRUE, None>>, <<FALSE, "/db">>}}

\* EnvironmentVariable(name=...)
EnvironmentVariable ==
    {[kind |-> "EnvironmentVariable", name |-> n] : n \in {"NOTIFICATION_PHONE"}}

RuntimePermission == DomainPort \cup HostPort \cup FSAccess \cup EnvironmentVariable

\* all lists over S of length at most n
RECURSIVE ListsUpTo(_, _)
ListsUpTo(S, n) ==
    IF n = 0 THEN {<<>>}
    ELSE LET shorter == ListsUpTo(S, n - 1)
         IN  shorter \cup {Append(l, x) : l \in shorter, x \in S}

PermissionLists == ListsUpTo(RuntimePermission, MaxPerms)

\* MCPManifest(...): registry package, any declared category set
MCPManifest ==
    {[registry |-> "npm", package_name |-> "mcp-server-sqlite-npx",
      permissions |-> c, dev |-> FALSE, code_mount |-> None, exec_command |-> None] :
        c \in SUBSET Permission}

\* directories present on the host
ExistingPaths ==
    {"/data", "/srv/mcp-server-sms", "/srv/mcp-server-stock",
     "/srv/mcp-server-travel"}

\* DevMCPManifest(...): local source mount plus override command
DevMCPManifest ==
    {[registry |-> "pypi", package_name |-> "mcp-server-sms",
      permissions |-> c, dev |-> TRUE, code_mount |-> m,
      exec_command |-> "python3 -m mcp_server_sms"] :
        <<c, m>> \in {<<{"MCP_AC_NETWORK_CLIENT", "MCP_AC_SYSTEM_ENV_READ"},
                        "/srv/mcp-server-sms">>,
                      <<{"MCP_AC_FILESYSTEM_READ", "MCP_AC_SYSTEM_ENV_READ"},
                        "/srv/absent">>}}

\* the remaining constructor arguments: runtime_args (positional arguments),
\* static_environment_vars (as the list of its items), remove_container_after_run
DefaultOptions ==
    [runtime_args |-> <<>>, static_environment_vars |-> <<>>,
     remove_container_after_run |-> TRUE]
DatabaseOptions ==
    [runtime_args |-> <<<<"/data/spendwise.db">>>>, static_environment_vars |-> <<>>,
     remove_container_after_run |-> TRUE]
CustomOptions ==
    [runtime_args |-> <<<<"--verbose">>>>,
     static_environment_vars |-> <<[k |-> "LOG_LEVEL", v |-> "debug"]>>,
     remove_container_after_run |-> FALSE]

\* the constructor calls: a manifest with the remaining arguments
Calls ==
    {<<m, DatabaseOptions>> : m \in MCPManifest}
    \cup {<<m, o>> : m \in DevMCPManifest, o \in {DefaultOptions, CustomOptions}}

\* values a host environment variable can hold
EnvValues == {"+41790000000", "+41791111111"}
EnvNames == {"NOTIFICATION_PHONE"}

\* host variables holding the credentials of the optional tool servers
CredentialNames ==
    {"OPENWEATHER_API_KEY", "AMADEUS_API_KEY", "AMADEUS_API_SECRET",
     "TWILIO_ACCOUNT_SID", "TWILIO_AUTH_TOKEN", "TWILIO_PHONE_NUMBER",
     "FMP_API_KEY"}

\* the optional tool servers of the API, in the order of their creation
OptionalServers == {"travel", "sms", "stock"}

\* the threads of MockBank that call check_recurring_transactions: the
\* scheduler's worker (10-second job) and the server's event loop (startup
\* check, /recurring page loads)
Runners == {"job", "loop"}

\* what p.get_user_consent() can return: the operator's allow or deny
get_user_consent == BOOLEAN

\* values passed to set_sandbox_version
SandboxVersions == {"latest", "0.3.1"}

\* the SandboxedMCPStdio objects a caller constructs
Instances == {"A", "B"}

VARIABLES
    environ,            \* os.environ: name -> value, None when unset
    sandbox_version,    \* module global _sandbox_version
    pc,                 \* per object: position of its constructor / lifecycle
    manifest,           \* constructor argument
    runtime_permissions,\* constructor argument
    runtime_args,       \* constructor argument
    static_environment_vars, \* constructor argument
    remove_container_after_run, \* constructor argument
    raised,             \* permissions carried by InvalidRuntimePermission
    answers,            \* get_user_consent results so far, one per prompt
    consented_perms,    \* the local consented_perms handed to the builder
    args,               \* params["args"] of the constructed server
    environ_at_build,   \* os.environ as it was when args was composed
    version_at_build,   \* _sandbox_version as it was when args was composed
    spawned,            \* docker processes started for the object
    lifespan,           \* position of the API's lifespan coroutine
    mcp_context,        \* module global _mcp_context of api/main.py
    mcp_servers,        \* app.state.mcp_servers
    chat_responses,     \* status codes the chat route has answered with
    optional,           \* per optional tool server: how far startup got with it
    local_db,           \* bank_sync: references in SpendWise's transactions table
    mockbank,           \* bank_sync: references MockBank's API would list
    online,             \* bank_sync: whether MockBank answers
    sync,               \* bank_sync: position and locals of one loop iteration
    recurring,          \* MockBank: rows of recurring_transactions, by id
    transactions,       \* MockBank: rows of transactions created by the scheduler
    today,              \* MockBank: date.today(), as an index into Dates
    runs                \* MockBank: per thread, its check_recurring_transactions frame

inputs == <<manifest, runtime_permissions, runtime_args,
            static_environment_vars, remove_container_after_run>>
host == <<environ, sandbox_version>>
app == <<lifespan, mcp_context, mcp_servers, chat_responses>>
bank_sync == <<local_db, mockbank, online, sync>>
scheduler == <<recurring, transactions, today, runs>>
vars == <<environ, sandbox_version, pc, manifest, runtime_permissions,
          runtime_args, static_environment_vars, remove_container_after_run,
          raised, answers, consented_perms, args, environ_at_build,
          version_at_build, spawned, lifespan, mcp_context, mcp_servers,
          chat_responses, optional, local_db, mockbank, online, sync,
          recurring, transactions, today, runs>>

\* ------------------------------------------------- formatting (str, join)
\* str(x) inside an f-string
Str(x) == IF x = None THEN "None" ELSE x

\* an f-string: the concatenation of its pieces (empty pieces vanish)
FString(parts) == SelectSeq(parts, LAMBDA t : t # "")

\* sep.join(strings)
RECURSIVE Join(_, _)
Join(strings, sep) ==
    IF strings = <<>> THEN <<>>
    ELSE IF Len(strings) = 1 THEN strings[1]
    ELSE strings[1] \o <<sep>> \o Join(Tail(strings), sep)

\* sum(lists, []): concatenation of a list of lists
RECURSIVE Sum(_)
Sum(lists) == IF lists = <<>> THEN <<>> ELSE lists[1] \o Sum(Tail(lists))

\* --------------------------------------------------------- permission model
\* the capability category of a concrete permission
Category(p) ==
    CASE p.kind = "DomainPort" -> "MCP_AC_NETWORK_CLIENT"
      [] p.kind = "HostPort" -> "MCP_AC_NETWORK_CLIENT"
      [] p.kind = "FSAccess" ->
            IF p.write THEN "MCP_AC_FILESYSTEM_WRITE" ELSE "MCP_AC_FILESYSTEM_READ"
      [] p.kind = "EnvironmentVariable" -> "MCP_AC_SYSTEM_ENV_READ"

\* RuntimePermission.validate_with_manifest_perms(manifest.permissions)
validate_with_manifest_perms(p, perms) == Category(p) \in perms

\* ------------------------------------------------- SandboxedMCPStdio.__init__
\* variant: the error carries only the first offending permission
illegal_first_offender(m, perms) ==
    LET bad == SelectSeq(perms, LAMBDA p : ~validate_with_manifest_perms(p, m.permissions))
    IN  IF bad = <<>> THEN <<>> ELSE <<bad[1]>>

\* variant: only the first requested permission is validated
illegal_head_only(m, perms) ==
    IF perms # <<>> /\ ~validate_with_manifest_perms(perms[1], m.permissions)
    THEN <<perms[1]>> ELSE <<>>

\* illegal = [p for p in runtime_permissions if not p.validate...(manifest.permissions)]
illegal(m, perms) ==
    SelectSeq(perms, LAMBDA p : ~validate_with_manifest_perms(p, m.permissions))

\* variant: the answers are asked for but every permission is forwarded
ConsentFilter_ignoring_answers(perms, ans) == perms

\* variant: a permission some server was granted before is forwarded unasked
RECURSIVE ConsentFilter_remembering_grants(_, _)
ConsentFilter_remembering_grants(perms, ans) ==
    IF perms = <<>> \/ ans = <<>> THEN <<>>
    ELSE (IF ans[1] \/ \E j \in Instances : \E k \in 1..Len(consented_perms[j]) :
                            consented_perms[j][k] = perms[1]
          THEN <<perms[1]>> ELSE <<>>)
         \o ConsentFilter_remembering_grants(Tail(perms), Tail(ans))

\* consented_perms = [p for p in runtime_permissions if p.get_user_consent()],
\* given the answers get_user_consent returned, in request order
RECURSIVE ConsentFilter(_, _)
ConsentFilter(perms, ans) ==
    IF perms = <<>> \/ ans = <<>> THEN <<>>
    ELSE (IF ans[1] THEN <<perms[1]>> ELSE <<>>)
         \o ConsentFilter(Tail(perms), Tail(ans))

IsDomainPort(p) == p.kind = "DomainPort"
IsHostPort(p) == p.kind = "HostPort"
IsFSAccess(p) == p.kind = "FSAccess"
IsEnvironmentVariable(p) == p.kind = "EnvironmentVariable"

EgressOfDomain(p) == FString(<<p.domain, ":", ToString(p.port)>>)
EgressOfHost(p) == FString(<<p.host, ":", ToString(p.port)>>)

\* variant: the by-address permissions are left out of the allow-list
allowed_egress_domains_only(consented) ==
    LET domains == SelectSeq(consented, IsDomainPort)
    IN  Join([k \in 1..Len(domains) |-> EgressOfDomain(domains[k])], ",")

\* allowed_egress = ",".join([domain:port ...] + [host:port ...])
allowed_egress(consented) ==
    LET domains == SelectSeq(consented, IsDomainPort)
        hosts == SelectSeq(consented, IsHostPort)
    IN  Join([k \in 1..Len(domains) |-> EgressOfDomain(domains[k])]
             \o [k \in 1..Len(hosts) |-> EgressOfHost(hosts[k])], ",")

\* variant: the development mount without the two markers
add_args_mount_only(m) ==
    IF m.dev
    THEN << <<"--mount">>,
            FString(<<"type", "=", "bind", ",", "src", "=", Str(m.code_mount),
                      ",", "dst", "=", "/sandbox">>) >>
    ELSE <<>>

\* add_args: the development additions
add_args(m) ==
    IF m.dev
    THEN << <<"--mount">>,
            FString(<<"type", "=", "bind", ",", "src", "=", Str(m.code_mount),
                      ",", "dst", "=", "/sandbox">>),
            <<"-e">>, <<"PRE_INSTALLED", "=", "true">>,
            <<"-e">>, FString(<<"EXE", "=", Str(m.exec_command)>>) >>
    ELSE <<>>

\* variant: the override container path is ignored
MountDestination_host_path(fs) == fs.path

\* fs.container_path or fs.path
MountDestination(fs) == IF fs.container_path = None THEN fs.path ELSE fs.container_path

\* variant: the readonly option is never appended
MountOf_always_writable(fs) ==
    << <<"--mount">>,
       FString(<<"type", "=", "bind", ",", "src", "=", Str(fs.path),
                 ",", "dst", "=", Str(MountDestination(fs))>>) >>

\* ["--mount", f"type=bind,src={fs.path},dst={...}" + ("" if fs.write else ",readonly")]
MountOf(fs) ==
    << <<"--mount">>,
       FString(<<"type", "=", "bind", ",", "src", "=", Str(fs.path),
                 ",", "dst", "=", Str(MountDestination(fs))>>)
       \o (IF fs.write THEN <<>> ELSE <<",", "readonly">>) >>

\* variant: the mounts composed for an earlier server are carried over
mount_args_carried_over(consented) ==
    LET earlier == IF \E j \in Instances : consented_perms[j] # <<>>
                   THEN consented_perms[CHOOSE j \in Instances : consented_perms[j] # <<>>]
                   ELSE <<>>
        fs == SelectSeq(consented \o earlier, IsFSAccess)
    IN  Sum([k \in 1..Len(fs) |-> MountOf(fs[k])])

\* the mount flags of the consented filesystem permissions
mount_args(consented) ==
    LET fs == SelectSeq(consented, IsFSAccess)
    IN  Sum([k \in 1..Len(fs) |-> MountOf(fs[k])])

\* variant: the allow-list is emitted also when it is empty
egress_args_always(egress) ==
    << <<"-e">>, <<"ALLOWED_EGRESS", "=">> \o egress >>

\* *(["-e", f"ALLOWED_EGRESS={allowed_egress}"] if allowed_egress else [])
egress_args(egress) ==
    IF egress # <<>>
    THEN << <<"-e">>, <<"ALLOWED_EGRESS", "=">> \o egress >>
    ELSE <<>>

\* variant: every variable reads as one fixed value
os_environ_get_fixed(env, name) == "+41790000000"

\* os.environ.get(name)
os_environ_get(env, name) == env[name]

\* variant: the notification number is passed whether it was asked for or not
environment_args_unasked(consented, env) ==
    << <<"-e">>, FString(<<"NOTIFICATION_PHONE", "=",
                           Str(os_environ_get(env, "NOTIFICATION_PHONE"))>>) >>

\* ["-e", f"{p.name}={os.environ.get(p.name)}"] for the consented variables
environment_args(consented, env) ==
    LET EnvOf(p) ==
            << <<"-e">>, FString(<<p.name, "=", Str(os_environ_get(env, p.name))>>) >>
        variables == SelectSeq(consented, IsEnvironmentVariable)
    IN  Sum([k \in 1..Len(variables) |-> EnvOf(variables[k])])

\* ["-e", f"{k}={v}"] for k, v in static_environment_vars.items()
static_args(static) ==
    LET PairOf(kv) == << <<"-e">>, FString(<<kv.k, "=", kv.v>>) >>
    IN  Sum([k \in 1..Len(static) |-> PairOf(static[k])])

\* variant: the first server built is always given the tag latest
image_latest_for_first(m, version) ==
    FString(<<"ghcr.io/guardiagent/mcp-sandbox-", m.registry, ":",
              IF \A i \in Instances : args[i] = <<>> THEN "latest" ELSE version>>)

\* f"ghcr.io/guardiagent/mcp-sandbox-{manifest.registry}:{_sandbox_version}"
image(m, version) ==
    FString(<<"ghcr.io/guardiagent/mcp-sandbox-", m.registry, ":", version>>)

\* variant: the environment flags are composed before the permission mounts
docker_args_environment_first(m, consented, env, static, remove, rargs, version) ==
    << <<"run">> >>
    \o (IF remove THEN << <<"--rm">> >> ELSE <<>>)
    \o << <<"-i">>, <<"--cap-add=NET_ADMIN">>,
          <<"-e">>, FString(<<"PACKAGE", "=", m.package_name>>) >>
    \o egress_args(allowed_egress(consented))
    \o environment_args(consented, env)
    \o static_args(static)
    \o mount_args(consented)
    \o add_args(m)
    \o << image(m, version) >>
    \o rargs

\* variant: the container is never removed on exit
docker_args_keeping_container(m, consented, env, static, remove, rargs, version) ==
    << <<"run">>, <<"-i">>, <<"--cap-add=NET_ADMIN">>,
       <<"-e">>, FString(<<"PACKAGE", "=", m.package_name>>) >>
    \o mount_args(consented)
    \o egress_args(allowed_egress(consented))
    \o environment_args(consented, env)
    \o static_args(static)
    \o add_args(m)
    \o << image(m, version) >>
    \o rargs

\* args = ["run", ..., image, *runtime_args]
docker_args(m, consented, env, static, remove, rargs, version) ==
    << <<"run">> >>
    \o (IF remove THEN << <<"--rm">> >> ELSE <<>>)
    \o << <<"-i">>, <<"--cap-add=NET_ADMIN">>,
          <<"-e">>, FString(<<"PACKAGE", "=", m.package_name>>) >>
    \o mount_args(consented)
    \o egress_args(allowed_egress(consented))
    \o environment_args(consented, env)
    \o static_args(static)
    \o add_args(m)
    \o << image(m, version) >>
    \o rargs

\* ------------------------------------------------------------------- state
NoManifest == CHOOSE m \in MCPManifest : m.permissions = {}

\* bank_sync before an iteration of its loop: nothing read, nothing fetched
IdleSync ==
    [pc |-> "idle", local_refs |-> {}, all_transactions |-> <<>>,
     deleted_refs |-> {}, bank_reachable |-> TRUE]

\* a thread that is not inside check_recurring_transactions
IdleRun == [pc |-> "idle", today |-> 0, recurring_list |-> <<>>, k |-> 0]

Init ==
    /\ environ \in {e @@ [n \in CredentialNames |-> None] :
                        e \in [EnvNames -> EnvValues \cup {None}]}
    /\ sandbox_version = "latest"
    /\ pc = [i \in Instances |-> "new"]
    /\ manifest = [i \in Instances |-> NoManifest]
    /\ runtime_permissions = [i \in Instances |-> <<>>]
    /\ runtime_args = [i \in Instances |-> <<>>]
    /\ static_environment_vars = [i \in Instances |-> <<>>]
    /\ remove_container_after_run = [i \in Instances |-> TRUE]
    /\ raised = [i \in Instances |-> <<>>]
    /\ answers = [i \in Instances |-> <<>>]
    /\ consented_perms = [i \in Instances |-> <<>>]
    /\ args = [i \in Instances |-> <<>>]
    /\ environ_at_build = [i \in Instances |-> environ]
    /\ version_at_build = [i \in Instances |-> sandbox_version]
    /\ spawned = [i \in Instances |-> 0]
    /\ lifespan = "start"
    /\ mcp_context = None
    /\ mcp_servers = None
    /\ chat_responses = <<>>
    /\ optional = [s \in OptionalServers |-> "unchecked"]
    /\ local_db = {}
    /\ mockbank = {}
    /\ online = TRUE
    /\ sync = IdleSync
    /\ recurring = <<>>
    /\ transactions = <<>>
    /\ today = 1
    /\ runs = [r \in Runners |-> IdleRun]

\* SandboxedMCPStdio(manifest, runtime_args, runtime_permissions, ...):
\* entry of the constructor and its validation against the manifest
Construct(i, m, perms, rargs, static, remove) ==
    /\ pc[i] = "new"
    /\ manifest' = [manifest EXCEPT ![i] = m]
    /\ runtime_permissions' = [runtime_permissions EXCEPT ![i] = perms]
    /\ runtime_args' = [runtime_args EXCEPT ![i] = rargs]
    /\ static_environment_vars' = [static_environment_vars EXCEPT ![i] = static]
    /\ remove_container_after_run' = [remove_container_after_run EXCEPT ![i] = remove]
    /\ IF illegal(m, perms) # <<>>
       THEN /\ raised' = [raised EXCEPT ![i] = illegal(m, perms)]
            /\ pc' = [pc EXCEPT ![i] = "raised"]
       ELSE /\ raised' = raised
            /\ pc' = [pc EXCEPT ![i] = "consent"]
    /\ UNCHANGED <<bank_sync, scheduler, optional, host, app, answers, consented_perms, args, environ_at_build,
                   version_at_build, spawned>>

\* one p.get_user_consent() call of the consent list comprehension
AskConsent(i, answer) ==
    /\ pc[i] = "consent"
    /\ Len(answers[i]) < Len(runtime_permissions[i])
    /\ answers' = [answers EXCEPT ![i] = Append(@, answer)]
    /\ UNCHANGED <<bank_sync, scheduler, optional, host, app, inputs, pc, raised, consented_perms, args,
                   environ_at_build, version_at_build, spawned>>

\* variant: a build with nothing consented is refused
Build_refusing_nothing_consented(i) ==
    /\ pc[i] = "consent"
    /\ Len(answers[i]) = Len(runtime_permissions[i])
    /\ ConsentFilter(runtime_permissions[i], answers[i]) # <<>>
    /\ consented_perms' = [consented_perms EXCEPT ![i] =
            ConsentFilter(runtime_permissions[i], answers[i])]
    /\ args' = [args EXCEPT ![i] =
            docker_args(manifest[i], consented_perms'[i], environ,
                        static_environment_vars[i],
                        remove_container_after_run[i], runtime_args[i],
                        sandbox_version)]
    /\ environ_at_build' = [environ_at_build EXCEPT ![i] = environ]
    /\ version_at_build' = [version_at_build EXCEPT ![i] = sandbox_version]
    /\ pc' = [pc EXCEPT ![i] = "built"]
    /\ UNCHANGED <<bank_sync, scheduler, optional, host, app, inputs, raised, answers, spawned>>

\* variant: the constructor launches docker as soon as the vector is composed
Build_spawning(i) ==
    /\ pc[i] = "consent"
    /\ Len(answers[i]) = Len(runtime_permissions[i])
    /\ consented_perms' = [consented_perms EXCEPT ![i] =
            ConsentFilter(runtime_permissions[i], answers[i])]
    /\ args' = [args EXCEPT ![i] =
            docker_args(manifest[i], consented_perms'[i], environ,
                        static_environment_vars[i],
                        remove_container_after_run[i], runtime_args[i],
                        sandbox_version)]
    /\ environ_at_build' = [environ_at_build EXCEPT ![i] = environ]
    /\ version_at_build' = [version_at_build EXCEPT ![i] = sandbox_version]
    /\ pc' = [pc EXCEPT ![i] = "built"]
    /\ spawned' = [spawned EXCEPT ![i] = @ + 1]
    /\ UNCHANGED <<bank_sync, scheduler, optional, host, app, inputs, raised, answers>>

\* composition of the argument vector and super().__init__(...)
Build(i) ==
    /\ pc[i] = "consent"
    /\ Len(answers[i]) = Len(runtime_permissions[i])
    /\ consented_perms' = [consented_perms EXCEPT ![i] =
            ConsentFilter(runtime_permissions[i], answers[i])]
    /\ args' = [args EXCEPT ![i] =
            docker_args(manifest[i], consented_perms'[i], environ,
                        static_environment_vars[i],
                        remove_container_after_run[i], runtime_args[i],
                        sandbox_version)]
    /\ environ_at_build' = [environ_at_build EXCEPT ![i] = environ]
    /\ version_at_build' = [version_at_build EXCEPT ![i] = sandbox_version]
    /\ pc' = [pc EXCEPT ![i] = "built"]
    /\ UNCHANGED <<bank_sync, scheduler, optional, host, app, inputs, raised, answers, spawned>>

\* variant: a server that failed is connected again
Start_again(i) ==
    /\ pc[i] \in {"built", "failed"}
    /\ spawned' = [spawned EXCEPT ![i] = @ + 1]
    /\ pc' = [pc EXCEPT ![i] = "running"]
    /\ UNCHANGED <<bank_sync, scheduler, optional, host, app, inputs, raised, answers, consented_perms, args,
                   environ_at_build, version_at_build>>

\* entering the MCPServers context connects the server: docker is spawned
Start(i) ==
    /\ pc[i] = "built"
    /\ spawned' = [spawned EXCEPT ![i] = @ + 1]
    /\ pc' = [pc EXCEPT ![i] = "running"]
    /\ UNCHANGED <<bank_sync, scheduler, optional, host, app, inputs, raised, answers, consented_perms, args,
                   environ_at_build, version_at_build>>

\* the host environment changes (load_dotenv, the operator's shell)
SetEnviron(n, v) ==
    /\ environ[n] # v
    /\ environ' = [environ EXCEPT ![n] = v]
    /\ UNCHANGED <<bank_sync, scheduler, optional, sandbox_version, app, inputs, pc, raised, answers,
                   consented_perms, args, environ_at_build, version_at_build,
                   spawned>>

\* variant: the new version is also written into the specs already built
set_sandbox_version_retagging(version) ==
    /\ sandbox_version # version
    /\ sandbox_version' = version
    /\ args' = [i \in Instances |->
                 [k \in 1..Len(args[i]) |->
                    IF args[i][k][1] = "ghcr.io/guardiagent/mcp-sandbox-"
                    THEN image(manifest[i], version) ELSE args[i][k]]]
    /\ UNCHANGED <<bank_sync, scheduler, optional, environ, app, inputs, pc, raised, answers, consented_perms,
                   environ_at_build, version_at_build, spawned>>

\* set_sandbox_version(version)
set_sandbox_version(version) ==
    /\ sandbox_version # version
    /\ sandbox_version' = version
    /\ UNCHANGED <<bank_sync, scheduler, optional, environ, app, inputs, pc, raised, answers, consented_perms,
                   args, environ_at_build, version_at_build, spawned>>

\* a caller invokes the constructor with one of the calls
SandboxedMCPStdio(i) ==
    /\ pc[i] = "new"
    /\ \E c \in Calls, perms \in PermissionLists :
            Construct(i, c[1], perms, c[2].runtime_args,
                      c[2].static_environment_vars,
                      c[2].remove_container_after_run)

\* one caller constructing one server
Caller == {"A"}

Next ==
    \/ \E i \in Caller : SandboxedMCPStdio(i)
    \/ \E i \in Caller, answer \in get_user_consent : AskConsent(i, answer)
    \/ \E i \in Caller : Build(i)
    \/ \E i \in Caller : Start(i)
    \/ \E n \in EnvNames, v \in EnvValues \cup {None} : SetEnviron(n, v)

Spec == Init /\ [][Next]_vars

\* ---------------------------------------------------- reading a built spec
\* the elements of seq at the positions in idx, in order
Pick(seq, idx) ==
    [j \in 1..Cardinality(idx) |->
        seq[CHOOSE k \in idx : Cardinality({l \in idx : l < k}) = j - 1]]

\* number of positions of seq holding x
Count(seq, x) == Cardinality({k \in 1..Len(seq) : seq[k] = x})

\* s.split(sep) of a non-empty string; no piece for the empty string
RECURSIVE Split(_, _)
Split(s, sep) ==
    IF s = <<>> THEN <<>>
    ELSE LET cuts == {k \in 1..Len(s) : s[k] = sep}
         IN  IF cuts = {} THEN <<s>>
             ELSE LET c == CHOOSE k \in cuts : \A l \in cuts : k <= l
                  IN  <<SubSeq(s, 1, c - 1)>> \o Split(SubSeq(s, c + 1, Len(s)), sep)

\* the arguments that follow a given flag in an argument vector
ValuesOf(a, flag) == Pick(a, {k \in 2..Len(a) : a[k - 1] = <<flag>>})

\* key and value of a "KEY=value" string
KeyOf(e) == e[1]
ValueOf(e) == SubSeq(e, 3, Len(e))

\* the object exists: its constructor returned
Built(i) == pc[i] \in {"built", "running", "closed", "failed"}

\* the requested permissions the operator answered allow to, in request order
Granted(i) ==
    Pick(runtime_permissions[i],
         {k \in 1..Len(runtime_permissions[i]) :
            k <= Len(answers[i]) /\ answers[i][k]})

\* the requested permissions whose category the manifest does not declare
Uncovered(i) ==
    {k \in 1..Len(runtime_permissions[i]) :
        Category(runtime_permissions[i][k]) \notin manifest[i].permissions}

\* ------------------------------------------------------------------ claims
\* C1: validation passes iff every requested permission's category is declared
\* by the manifest; when it fails, InvalidRuntimePermission carries exactly the
\* uncovered permissions of the request (all of them, none of the covered ones).
C1_ValidationIffCovered ==
    \A i \in Instances :
        pc[i] # "new" =>
            /\ (pc[i] # "raised") <=> (Uncovered(i) = {})
            /\ raised[i] = Pick(runtime_permissions[i], Uncovered(i))

C1_Witness ==
    \E i \in Instances :
        /\ pc[i] = "raised"
        /\ Len(raised[i]) = 2
        /\ raised[i][1] # raised[i][2]

\* C2: a request with at least one uncovered permission fails closed: no
\* arguments are built, the consent source is never consulted and no process is
\* spawned, also when other permissions of the request are covered.
C2_FailsClosed ==
    \A i \in Instances :
        (pc[i] # "new" /\ Uncovered(i) # {}) =>
            /\ pc[i] = "raised"
            /\ answers[i] = <<>>
            /\ consented_perms[i] = <<>>
            /\ args[i] = <<>>
            /\ spawned[i] = 0

C2_Witness ==
    \E i \in Instances :
        /\ pc[i] = "raised"
        /\ Len(runtime_permissions[i]) = 2
        /\ Uncovered(i) = {2}

\* C3: the permissions forwarded to the builder are exactly the requested
\* permissions answered allow, in request order; the consent source is consulted
\* once per requested permission, never more, and all of them before the build.
C3_ForwardedAreGranted ==
    \A i \in Instances :
        /\ Len(answers[i]) <= Len(runtime_permissions[i])
        /\ Built(i) =>
            /\ Len(answers[i]) = Len(runtime_permissions[i])
            /\ consented_perms[i] = Granted(i)
            /\ \A p \in RuntimePermission :
                    Count(consented_perms[i], p) <= Count(runtime_permissions[i], p)

C3_Witness ==
    \E i \in Instances :
        /\ Built(i)
        /\ Len(runtime_permissions[i]) = 2
        /\ answers[i] = <<FALSE, TRUE>>
        /\ consented_perms[i] = <<runtime_permissions[i][2]>>

\* the mount strings of a built object that stem from its permissions: all
\* mount strings but the development mount, which add_args puts last
PermissionMounts(i) ==
    LET all == ValuesOf(args[i], "--mount")
    IN  IF manifest[i].dev THEN SubSeq(all, 1, Len(all) - 1) ELSE all

\* the environment assignments of a built object
Assignments(i) == ValuesOf(args[i], "-e")

\* the assignments of a built object for variable name n
AssignmentsOf(i, n) == SelectSeq(Assignments(i), LAMBDA e : KeyOf(e) = n)

\* the host:port string of a network permission
HostPortOf(p) ==
    IF p.kind = "DomainPort" THEN <<p.domain, ":", ToString(p.port)>>
    ELSE <<p.host, ":", ToString(p.port)>>

IsNetwork(p) == p.kind \in {"DomainPort", "HostPort"}

\* the entries of the egress allow-list of a built object
EgressEntries(i) ==
    LET egress == AssignmentsOf(i, "ALLOWED_EGRESS")
    IN  IF egress = <<>> THEN <<>> ELSE Split(ValueOf(egress[1]), ",")

\* the comma-separated options of a mount string, and one option's value
MountOptions(mount) == Split(mount, ",")
MountOption(mount, key) ==
    LET opts == SelectSeq(MountOptions(mount), LAMBDA o : KeyOf(o) = key)
    IN  ValueOf(opts[1])

\* C4: denial is never an error: a validated request is never rejected later,
\* the build is possible whatever the operator answered, and with every
\* requested permission denied the built spec has no permission-derived mount,
\* no egress allow-list and no environment pass-through.
C4_DenialIsNoError ==
    \A i \in Instances :
        /\ (pc[i] = "raised") => (answers[i] = <<>>)
        /\ (pc[i] = "consent" /\ Len(answers[i]) = Len(runtime_permissions[i]))
                => ENABLED Build(i)
        /\ (Built(i) /\ \A k \in 1..Len(answers[i]) : ~answers[i][k]) =>
            LET assigned == Assignments(i)
            IN  /\ PermissionMounts(i) = <<>>
                /\ args[i] # <<>> /\ args[i][1] = <<"run">>
                /\ assigned # <<>> /\ KeyOf(assigned[1]) = "PACKAGE"
                /\ \A e \in 1..Len(assigned) :
                        KeyOf(assigned[e]) \notin {"ALLOWED_EGRESS"} \cup EnvNames

C4_Witness ==
    \E i \in Instances :
        /\ Built(i)
        /\ answers[i] = <<FALSE, FALSE>>
        /\ manifest[i].dev
        /\ \E k \in 1..2 : runtime_permissions[i][k].kind = "EnvironmentVariable"

\* C5: the egress allow-list of a built spec holds exactly the host:port pairs
\* of the consented network permissions, comma-separated: one entry per
\* consented network permission, none for a denied or unrequested destination.
C5_EgressIsConsentedNetwork ==
    \A i \in Instances :
        Built(i) =>
            LET entries == EgressEntries(i)
                granted == Granted(i)
            IN  /\ Len(AssignmentsOf(i, "ALLOWED_EGRESS")) <= 1
                /\ \A p \in DomainPort \cup HostPort :
                        Count(entries, HostPortOf(p)) = Count(granted, p)
                /\ Len(entries) = Len(SelectSeq(granted, IsNetwork))

C5_Witness ==
    \E i \in Instances :
        /\ Built(i)
        /\ Len(EgressEntries(i)) = 2
        /\ EgressEntries(i)[1] # EgressEntries(i)[2]

\* C6: a built spec has exactly one permission-derived mount per consented
\* filesystem permission (none for a denied one), in request order, and the
\* mount is writable iff the permission's write flag is set, else readonly.
C6_OneMountPerConsentedFS ==
    \A i \in Instances :
        Built(i) =>
            LET fs == SelectSeq(Granted(i), IsFSAccess)
                mounts == PermissionMounts(i)
            IN  /\ Len(mounts) = Len(fs)
                /\ \A k \in 1..Len(fs) :
                        fs[k].write <=> (Count(MountOptions(mounts[k]), <<"readonly">>) = 0)

C6_Witness ==
    \E i \in Instances :
        /\ Built(i)
        /\ Len(PermissionMounts(i)) = 1
        /\ Len(SelectSeq(runtime_permissions[i], IsFSAccess)) = 2
        /\ Count(MountOptions(PermissionMounts(i)[1]), <<"readonly">>) = 1

\* C7: the mount of a consented filesystem permission has the permission's host
\* path as source and, as destination, the override container path when one is
\* given and the host path otherwise.
C7_MountSourceAndDestination ==
    \A i \in Instances :
        Built(i) =>
            LET fs == SelectSeq(Granted(i), IsFSAccess)
                mounts == PermissionMounts(i)
            IN  \A k \in 1..Len(fs) :
                    /\ k <= Len(mounts)
                    /\ MountOption(mounts[k], "src") = <<fs[k].path>>
                    /\ MountOption(mounts[k], "dst") =
                        <<IF fs[k].container_path # None
                          THEN fs[k].container_path ELSE fs[k].path>>

C7_Witness ==
    \E i \in Instances :
        /\ Built(i)
        /\ Len(PermissionMounts(i)) = 2
        /\ MountOption(PermissionMounts(i)[1], "dst") = <<"/db">>
        /\ MountOption(PermissionMounts(i)[2], "dst") = <<"/data">>

\* C8: for a consented environment permission whose variable is set when the
\* spec is built, the assignment in the spec carries the value the host
\* environment had at build time, also after the host environment has changed.
C8_ValueCopiedAtBuild ==
    \A i \in Instances :
        Built(i) =>
            LET granted == Granted(i)
            IN  \A k \in 1..Len(granted) :
                    LET p == granted[k]
                        found == AssignmentsOf(i, p.name)
                    IN  (p.kind = "EnvironmentVariable"
                            /\ environ_at_build[i][p.name] # None) =>
                            /\ found # <<>>
                            /\ \A e \in 1..Len(found) :
                                    ValueOf(found[e]) = <<environ_at_build[i][p.name]>>

C8_Witness ==
    \E i \in Instances, n \in EnvNames :
        /\ Built(i)
        /\ AssignmentsOf(i, n) # <<>>
        /\ environ_at_build[i][n] # None
        /\ environ[n] # environ_at_build[i][n]
        /\ environ[n] # None

\* C9: a consented environment permission whose variable is unset in the host
\* environment yields the assignment with an empty value, exactly NAME=.
C9_UnsetVariableIsEmpty ==
    \A i \in Instances :
        Built(i) =>
            LET granted == Granted(i)
            IN  \A k \in 1..Len(granted) :
                    LET p == granted[k]
                        found == AssignmentsOf(i, p.name)
                    IN  (p.kind = "EnvironmentVariable"
                            /\ environ_at_build[i][p.name] = None) =>
                            /\ found # <<>>
                            /\ \A e \in 1..Len(found) : found[e] = <<p.name, "=">>

\* C10: building from a development manifest whose code_mount does not exist
\* fails: no spec is built and nothing is spawned.
C10_MissingCodeMountFails ==
    \A i \in Instances :
        (pc[i] # "new" /\ manifest[i].dev /\ manifest[i].code_mount \notin ExistingPaths) =>
            /\ ~Built(i)
            /\ args[i] = <<>>
            /\ spawned[i] = 0

\* the mount strings of a built object
Mounts(i) == ValuesOf(args[i], "--mount")

\* C11: a built spec holds the development additions (one bind mount of the
\* manifest's code_mount onto /sandbox, PRE_INSTALLED=true and EXE=<command>,
\* each once) iff its manifest is a development manifest, whatever the operator
\* answered; the spec of a registry manifest holds none of the three.
C11_DevAdditionsIffDev ==
    \A i \in Instances :
        Built(i) =>
            LET mounts == Mounts(i)
                assigned == Assignments(i)
                m == manifest[i]
            IN  IF m.dev
                THEN /\ Count(mounts, <<"type", "=", "bind", ",", "src", "=",
                                        m.code_mount, ",", "dst", "=", "/sandbox">>) = 1
                     /\ Count(assigned, <<"PRE_INSTALLED", "=", "true">>) = 1
                     /\ Count(assigned, <<"EXE", "=", m.exec_command>>) = 1
                     /\ Len(AssignmentsOf(i, "PRE_INSTALLED")) = 1
                     /\ Len(AssignmentsOf(i, "EXE")) = 1
                ELSE /\ \A k \in 1..Len(mounts) :
                            MountOption(mounts[k], "dst") # <<"/sandbox">>
                     /\ AssignmentsOf(i, "PRE_INSTALLED") = <<>>
                     /\ AssignmentsOf(i, "EXE") = <<>>

C11_Witness ==
    \E i \in Instances :
        /\ Built(i)
        /\ manifest[i].dev
        /\ answers[i] = <<TRUE, FALSE>>
        /\ Len(Mounts(i)) = 2

\* an argument that is a sandbox image reference
IsImage(x) == x # <<>> /\ x[1] = "ghcr.io/guardiagent/mcp-sandbox-"

\* the positions of a built object's arguments holding an image reference
ImagePositions(i) == {k \in 1..Len(args[i]) : IsImage(args[i][k])}

\* the leading arguments of a built object up to the package identity tag
LeadingArgs(i) ==
    << <<"run">> >>
    \o (IF remove_container_after_run[i] THEN << <<"--rm">> >> ELSE <<>>)
    \o << <<"-i">>, <<"--cap-add=NET_ADMIN">>, <<"-e">>,
          <<"PACKAGE", "=", manifest[i].package_name>> >>

\* the flags of the flag/value pairs between the head and the image reference
BodyFlags(i) ==
    LET p == CHOOSE k \in ImagePositions(i) : TRUE
        body == SubSeq(args[i], Len(LeadingArgs(i)) + 1, p - 1)
    IN  [k \in 1..(Len(body) \div 2) |-> body[2 * k - 1]]

\* the head, one image reference, and after it the caller's arguments in order
FramedByHeadAndImage(i) ==
    /\ Len(args[i]) >= Len(LeadingArgs(i))
    /\ SubSeq(args[i], 1, Len(LeadingArgs(i))) = LeadingArgs(i)
    /\ Cardinality(ImagePositions(i)) = 1
    /\ LET p == CHOOSE k \in ImagePositions(i) : TRUE
       IN  /\ p > Len(LeadingArgs(i))
           /\ (p - 1 - Len(LeadingArgs(i))) % 2 = 0
           /\ SubSeq(args[i], p + 1, Len(args[i])) = runtime_args[i]
    /\ \A k \in 1..Len(BodyFlags(i)) : BodyFlags(i)[k] \in {<<"--mount">>, <<"-e">>}

\* no mount flag after an environment flag
MountsBeforeEnvironment(flags) ==
    \A j, k \in 1..Len(flags) :
        j < k => ~(flags[j] = <<"-e">> /\ flags[k] = <<"--mount">>)

Started(i) == pc[i] \in {"running", "closed", "failed"}

\* C14: construction spawns nothing: while the constructor validates, asks or
\* has raised, and after it returned until the object is started, no docker
\* process of the object exists; a process exists only for a started object,
\* whose vector is complete (all prompts answered, head to image composed).
C14_NoProcessBeforeStart ==
    \A i \in Instances :
        /\ ~Started(i) => spawned[i] = 0
        /\ spawned[i] <= 1
        /\ spawned[i] > 0 =>
            /\ Len(answers[i]) = Len(runtime_permissions[i])
            /\ consented_perms[i] = Granted(i)
            /\ FramedByHeadAndImage(i)

C14_Witness ==
    \E i \in Instances :
        /\ pc[i] = "running"
        /\ spawned[i] = 1
        /\ Len(runtime_permissions[i]) = 2
        /\ consented_perms[i] = <<>>

\* ------------------------------------------- api/main.py lifespan, chat route
\* most chat requests served while the API is up
MaxChats == 2

\* values of OPENAI_API_KEY in the host environment
OpenAIKeys == {None, "", "sk-test"}

\* truth value of a string or None in a Python condition
Truthy(v) == v # None /\ v # ""

\* sqlite_manifest: the registry manifest declaring filesystem read and write
sqlite_manifest ==
    CHOOSE m \in MCPManifest :
        m.permissions = {"MCP_AC_FILESYSTEM_READ", "MCP_AC_FILESYSTEM_WRITE"}

\* servers_list = [sqlite_readonly, sqlite_readwrite]
servers_list == <<"A", "B">>

\* the servers that precede server i in servers_list
Earlier(i) ==
    {servers_list[j] : j \in {k \in 1..Len(servers_list) :
        \E l \in (k + 1)..Len(servers_list) : servers_list[l] = i}}

\* variant: the readonly flag is ignored, write access is always requested
create_sqlite_mcp_server_writable(i, readonly) ==
    Construct(i, sqlite_manifest,
              <<[kind |-> "FSAccess", path |-> "/data", write |-> TRUE,
                 container_path |-> None]>>,
              DatabaseOptions.runtime_args,
              DatabaseOptions.static_environment_vars,
              DatabaseOptions.remove_container_after_run)

\* create_sqlite_mcp_server(db_path, readonly): the constructor call it makes
create_sqlite_mcp_server(i, readonly) ==
    Construct(i, sqlite_manifest,
              <<[kind |-> "FSAccess", path |-> "/data", write |-> ~readonly,
                 container_path |-> None]>>,
              DatabaseOptions.runtime_args,
              DatabaseOptions.static_environment_vars,
              DatabaseOptions.remove_container_after_run)

\* ---------------------------------------- factories of the optional servers
\* sms_manifest: the development manifest of the SMS server
sms_manifest == CHOOSE m \in DevMCPManifest : m.code_mount \in ExistingPaths

\* stock_manifest: the development manifest of the stock server
stock_manifest ==
    [registry |-> "pypi", package_name |-> "mcp-server-stock",
     permissions |-> {"MCP_AC_NETWORK_CLIENT", "MCP_AC_SYSTEM_ENV_READ"},
     dev |-> TRUE, code_mount |-> "/srv/mcp-server-stock",
     exec_command |-> 
        "sh -c 'pip install -q --break-system-packages /sandbox >&2 && python3 -m mcp_server_stock'"]

\* travel_manifest: the development manifest of the travel server
travel_manifest ==
    [registry |-> "pypi", package_name |-> "mcp-server-travel",
     permissions |-> {"MCP_AC_NETWORK_CLIENT", "MCP_AC_SYSTEM_ENV_READ"},
     dev |-> TRUE, code_mount |-> "/srv/mcp-server-travel",
     exec_command |-> 
        "sh -c 'pip install -q --break-system-packages /sandbox >&2 && python3 -m mcp_server_travel'"]

\* EnvironmentVariable(name=...) as the factories write it
Variable(name) == [kind |-> "EnvironmentVariable", name |-> name]

\* the contents a .env file can have: per credential a value, None when the
\* file does not assign the name
DotenvFiles == [CredentialNames -> {None, "", "k3y"}]

\* load_dotenv() at process start: the assignments of the .env file are added
\* to os.environ, a variable that is already set keeps its value
load_dotenv(file) ==
    /\ lifespan = "start"
    /\ \A i \in Instances : pc[i] = "new"
    /\ \A n \in CredentialNames : environ[n] = None
    /\ environ' = [n \in DOMAIN environ |->
                     IF n \in DOMAIN file /\ environ[n] = None
                     THEN file[n] ELSE environ[n]]
    /\ environ' # environ
    /\ UNCHANGED <<bank_sync, scheduler, optional, sandbox_version, app, inputs,
                   pc, raised, answers, consented_perms, args,
                   environ_at_build, version_at_build, spawned>>

\* the start of a process whose .env file is one of files; nothing has been
\* loaded or constructed yet
ProcessStart(files) ==
    /\ \A n \in CredentialNames : environ[n] = None
    /\ \A i \in Instances : pc[i] = "new"
    /\ \E file \in files : load_dotenv(file)

\* missing = [var for var in required_vars if not os.environ.get(var)]
missing(env, required_vars) ==
    SelectSeq(required_vars, LAMBDA var : ~Truthy(os_environ_get(env, var)))

\* raise ValueError(...) of a factory: the constructor is never entered; the
\* names the message reports are kept in raised
RaiseValueError(i, names) ==
    /\ pc' = [pc EXCEPT ![i] = "ValueError"]
    /\ raised' = [raised EXCEPT ![i] = names]
    /\ UNCHANGED <<bank_sync, scheduler, optional, host, app, inputs, answers,
                   consented_perms, args, environ_at_build, version_at_build,
                   spawned>>

\* raise FileNotFoundError(...) of a factory whose server directory is absent
RaiseFileNotFoundError(i) ==
    /\ pc' = [pc EXCEPT ![i] = "FileNotFoundError"]
    /\ UNCHANGED <<bank_sync, scheduler, optional, host, app, inputs, raised,
                   answers, consented_perms, args, environ_at_build,
                   version_at_build, spawned>>

\* variant: the phone number is not among the required variables
create_sms_mcp_server_without_number(i) ==
    /\ pc[i] = "new"
    /\ LET required_vars == <<"TWILIO_ACCOUNT_SID", "TWILIO_AUTH_TOKEN">>
       IN  IF missing(environ, required_vars) # <<>>
           THEN RaiseValueError(i, missing(environ, required_vars))
           ELSE Construct(i, sms_manifest,
                          <<[kind |-> "DomainPort", domain |-> "api.twilio.com",
                             port |-> 443],
                            Variable("TWILIO_ACCOUNT_SID"),
                            Variable("TWILIO_AUTH_TOKEN"),
                            Variable("TWILIO_PHONE_NUMBER"),
                            Variable("NOTIFICATION_PHONE")>>,
                          <<>>, <<>>, TRUE)

\* create_sms_mcp_server(): the check of the Twilio variables, the check of
\* the server directory, then the constructor call.  Of the three
\* DomainPort permissions the first is kept.
create_sms_mcp_server(i) ==
    /\ pc[i] = "new"
    /\ LET required_vars ==
               <<"TWILIO_ACCOUNT_SID", "TWILIO_AUTH_TOKEN", "TWILIO_PHONE_NUMBER">>
       IN  IF missing(environ, required_vars) # <<>>
           THEN RaiseValueError(i, missing(environ, required_vars))
           ELSE IF sms_manifest.code_mount \notin ExistingPaths
           THEN RaiseFileNotFoundError(i)
           ELSE Construct(i, sms_manifest,
                          <<[kind |-> "DomainPort", domain |-> "api.twilio.com",
                             port |-> 443],
                            Variable("TWILIO_ACCOUNT_SID"),
                            Variable("TWILIO_AUTH_TOKEN"),
                            Variable("TWILIO_PHONE_NUMBER"),
                            Variable("NOTIFICATION_PHONE")>>,
                          <<>>, <<>>, TRUE)

\* create_stock_mcp_server(): the check of FMP_API_KEY, the check of the
\* server directory, then the constructor call.  Of the DomainPort
\* permissions the first is kept, with the HostPort of the local bank.
create_stock_mcp_server(i) ==
    /\ pc[i] = "new"
    /\ IF ~Truthy(os_environ_get(environ, "FMP_API_KEY"))
       THEN RaiseValueError(i, <<"FMP_API_KEY">>)
       ELSE IF stock_manifest.code_mount \notin ExistingPaths
       THEN RaiseFileNotFoundError(i)
       ELSE Construct(i, stock_manifest,
                      <<[kind |-> "DomainPort",
                         domain |-> "financialmodelingprep.com", port |-> 443],
                        [kind |-> "HostPort", host |-> "127.0.0.1", port |-> 8080],
                        Variable("FMP_API_KEY")>>,
                      <<>>, <<>>, TRUE)

\* has_amadeus = bool(os.environ.get("AMADEUS_API_KEY") and
\*                    os.environ.get("AMADEUS_API_SECRET"))
has_amadeus(env) ==
    /\ Truthy(os_environ_get(env, "AMADEUS_API_KEY"))
    /\ Truthy(os_environ_get(env, "AMADEUS_API_SECRET"))

\* create_travel_mcp_server(): the check of OPENWEATHER_API_KEY, the check of
\* the server directory, then the constructor call with the Amadeus variables
\* appended when both are set.  Of the DomainPort and of the HostPort
\* permissions the first is kept.
create_travel_mcp_server(i) ==
    /\ pc[i] = "new"
    /\ IF ~Truthy(os_environ_get(environ, "OPENWEATHER_API_KEY"))
       THEN RaiseValueError(i, <<"OPENWEATHER_API_KEY">>)
       ELSE IF travel_manifest.code_mount \notin ExistingPaths
       THEN RaiseFileNotFoundError(i)
       ELSE Construct(i, travel_manifest,
                      <<[kind |-> "DomainPort", domain |-> "test.api.amadeus.com",
                         port |-> 443],
                        [kind |-> "HostPort", host |-> "3.72.68.174", port |-> 443],
                        Variable("OPENWEATHER_API_KEY")>>
                      \o (IF has_amadeus(environ)
                          THEN <<Variable("AMADEUS_API_KEY"),
                                 Variable("AMADEUS_API_SECRET")>>
                          ELSE <<>>),
                      <<>>, <<>>, TRUE)

\* a script that loads its .env file and calls one factory
FactoryNext ==
    \/ ProcessStart(DotenvFiles)
    \/ create_sms_mcp_server("A")
    \/ create_stock_mcp_server("A")
    \/ create_travel_mcp_server("A")
    \/ \E answer \in get_user_consent : AskConsent("A", answer)
    \/ Build("A")

FactorySpec == Init /\ [][FactoryNext]_vars

\* lifespan up to the try block: MCP is initialised only with an OpenAI key
LifespanStartup(key) ==
    /\ lifespan = "start"
    /\ IF Truthy(key)
       THEN /\ lifespan' = "creating"
            /\ mcp_servers' = mcp_servers
       ELSE /\ lifespan' = "serving"
            /\ mcp_servers' = None
    /\ UNCHANGED <<bank_sync, scheduler, optional, host, inputs, pc, raised, answers, consented_perms, args,
                   environ_at_build, version_at_build, spawned, mcp_context,
                   chat_responses>>

\* sqlite_readonly = create_sqlite_mcp_server(db_path, readonly=True), then
\* sqlite_readwrite = create_sqlite_mcp_server(db_path, readonly=False)
LifespanCreate(i) ==
    /\ lifespan = "creating"
    /\ \A j \in Earlier(i) : pc[j] = "built"
    /\ create_sqlite_mcp_server(i, i = servers_list[1])

\* the optional servers that lifespan handles before server s
EarlierOptional(s) ==
    CASE s = "travel" -> {}
      [] s = "sms" -> {"travel"}
      [] s = "stock" -> {"travel", "sms"}

\* the test lifespan makes before it calls the factory of server s
HasCredentials(s, env) ==
    CASE s = "travel" -> Truthy(os_environ_get(env, "OPENWEATHER_API_KEY"))
      [] s = "sms" -> /\ Truthy(os_environ_get(env, "TWILIO_ACCOUNT_SID"))
                      /\ Truthy(os_environ_get(env, "TWILIO_AUTH_TOKEN"))
      [] s = "stock" -> Truthy(os_environ_get(env, "FMP_API_KEY"))

\* the variables the factory of server s requires
RequiredVars(s) ==
    CASE s = "travel" -> <<"OPENWEATHER_API_KEY">>
      [] s = "sms" -> <<"TWILIO_ACCOUNT_SID", "TWILIO_AUTH_TOKEN",
                        "TWILIO_PHONE_NUMBER">>
      [] s = "stock" -> <<"FMP_API_KEY">>

\* an optional server of lifespan: travel, sms, stock in this order, each
\* created by its factory when lifespan finds its credentials and left out
\* otherwise.  A ValueError of the factory leaves the try block: the except
\* branch sets app.state.mcp_servers = None and the API serves without MCP.
\* The factory's constructor call, with its prompts, is one step here.
LifespanOptional(s) ==
    /\ lifespan = "creating"
    /\ \A i \in Instances : pc[i] = "built"
    /\ \A t \in EarlierOptional(s) : optional[t] # "unchecked"
    /\ optional[s] = "unchecked"
    /\ IF ~HasCredentials(s, environ)
       THEN /\ optional' = [optional EXCEPT ![s] = "disabled"]
            /\ UNCHANGED <<lifespan, mcp_servers>>
       ELSE IF missing(environ, RequiredVars(s)) # <<>>
       THEN /\ optional' = [optional EXCEPT ![s] = "ValueError"]
            /\ mcp_servers' = None
            /\ lifespan' = "serving"
       ELSE /\ optional' = [optional EXCEPT ![s] = "created"]
            /\ UNCHANGED <<lifespan, mcp_servers>>
    /\ UNCHANGED <<bank_sync, scheduler, host, inputs, pc, raised, answers,
                   consented_perms, args, environ_at_build, version_at_build,
                   spawned, mcp_context, chat_responses>>

\* variant: the context is created while a constructor is still asking
LifespanEnter_while_asking ==
    /\ lifespan = "creating"
    /\ \A i \in Instances : pc[i] \in {"consent", "built"}
    /\ mcp_context' = "MCPServers"
    /\ lifespan' = "entering"
    /\ UNCHANGED <<bank_sync, scheduler, optional, host, inputs, pc, raised, answers, consented_perms, args,
                   environ_at_build, version_at_build, spawned, mcp_servers,
                   chat_responses>>

\* _mcp_context = MCPServers(*servers_list), then __aenter__ is awaited
LifespanEnter ==
    /\ lifespan = "creating"
    /\ \A i \in Instances : pc[i] = "built"
    /\ \A s \in OptionalServers : optional[s] # "unchecked"
    /\ mcp_context' = "MCPServers"
    /\ lifespan' = "entering"
    /\ UNCHANGED <<bank_sync, scheduler, optional, host, inputs, pc, raised, answers, consented_perms, args,
                   environ_at_build, version_at_build, spawned, mcp_servers,
                   chat_responses>>

\* __aenter__ has reached server i: the servers before it were connected
Connecting(i) ==
    /\ lifespan = "entering"
    /\ \A j \in Earlier(i) : pc[j] # "built"

\* __aenter__ connects the next server
AenterConnect(i) == Connecting(i) /\ Start(i)

\* docker cannot be spawned for the next server: __aenter__ raises and the
\* except branch of lifespan sets app.state.mcp_servers = None
AenterRaises(i) ==
    /\ Connecting(i)
    /\ pc[i] = "built"
    /\ pc' = [pc EXCEPT ![i] = "failed"]
    /\ mcp_servers' = None
    /\ lifespan' = "serving"
    /\ UNCHANGED <<bank_sync, scheduler, optional, host, inputs, raised, answers, consented_perms, args,
                   environ_at_build, version_at_build, spawned, mcp_context,
                   chat_responses>>

\* __aenter__ reaches optional server s after the SQLite servers: docker is
\* spawned for it, or cannot be, and then __aenter__ raises as above
AenterOptional(s, ok) ==
    /\ lifespan = "entering"
    /\ \A i \in Instances : pc[i] # "built"
    /\ \A t \in EarlierOptional(s) : optional[t] # "created"
    /\ optional[s] = "created"
    /\ IF ok
       THEN /\ optional' = [optional EXCEPT ![s] = "running"]
            /\ UNCHANGED <<lifespan, mcp_servers>>
       ELSE /\ optional' = [optional EXCEPT ![s] = "failed"]
            /\ mcp_servers' = None
            /\ lifespan' = "serving"
    /\ UNCHANGED <<bank_sync, scheduler, host, inputs, pc, raised, answers,
                   consented_perms, args, environ_at_build, version_at_build,
                   spawned, mcp_context, chat_responses>>

\* app.state.mcp_servers = await _mcp_context.__aenter__(): every server was
\* connected, the servers are stored and the API is ready
AenterReturns ==
    /\ lifespan = "entering"
    /\ \A i \in Instances : pc[i] # "built"
    /\ \A s \in OptionalServers : optional[s] # "created"
    /\ mcp_servers' = "servers_list"
    /\ lifespan' = "serving"
    /\ UNCHANGED <<bank_sync, scheduler, optional, host, inputs, pc, raised, answers, consented_perms, args,
                   environ_at_build, version_at_build, spawned, mcp_context,
                   chat_responses>>

\* the docker process of a running server exits on its own
ChildExits(i) ==
    /\ pc[i] = "running"
    /\ pc' = [pc EXCEPT ![i] = "failed"]
    /\ UNCHANGED <<bank_sync, scheduler, optional, host, app, inputs, raised, answers, consented_perms, args,
                   environ_at_build, version_at_build, spawned>>

\* variant: a chat request that finds no servers enters the context again
chat_reinitialising(outcome) ==
    /\ lifespan = "serving"
    /\ Len(chat_responses) < MaxChats
    /\ chat_responses' = Append(chat_responses, outcome)
    /\ mcp_servers' = (IF mcp_context # None THEN "servers_list" ELSE mcp_servers)
    /\ UNCHANGED <<bank_sync, scheduler, optional, host, inputs, pc, raised, answers, consented_perms, args,
                   environ_at_build, version_at_build, spawned, lifespan,
                   mcp_context>>

\* POST /chat: 503 while app.state.mcp_servers is not set, else the agents run
\* on the stored servers and the outcome is their answer or an error
chat(outcome) ==
    /\ lifespan = "serving"
    /\ Len(chat_responses) < MaxChats
    /\ chat_responses' =
            Append(chat_responses, IF ~Truthy(mcp_servers) THEN 503 ELSE outcome)
    /\ UNCHANGED <<bank_sync, scheduler, optional, host, inputs, pc, raised, answers, consented_perms, args,
                   environ_at_build, version_at_build, spawned, lifespan,
                   mcp_context, mcp_servers>>

\* variant: the teardown is guarded by app.state.mcp_servers
LifespanShutdown_when_ready ==
    /\ lifespan = "serving"
    /\ lifespan' = (IF Truthy(mcp_servers) THEN "exiting" ELSE "stopped")
    /\ UNCHANGED <<bank_sync, scheduler, optional, host, inputs, pc, raised, answers, consented_perms, args,
                   environ_at_build, version_at_build, spawned, mcp_context,
                   mcp_servers, chat_responses>>

\* after the yield: if _mcp_context: await _mcp_context.__aexit__(...)
LifespanShutdown ==
    /\ lifespan = "serving"
    /\ lifespan' = (IF mcp_context # None THEN "exiting" ELSE "stopped")
    /\ UNCHANGED <<bank_sync, scheduler, optional, host, inputs, pc, raised, answers, consented_perms, args,
                   environ_at_build, version_at_build, spawned, mcp_context,
                   mcp_servers, chat_responses>>

\* __aexit__ cleans up a running server: its docker process is terminated
AexitCleanup(i) ==
    /\ lifespan = "exiting"
    /\ pc[i] = "running"
    /\ pc' = [pc EXCEPT ![i] = "closed"]
    /\ UNCHANGED <<bank_sync, scheduler, optional, host, app, inputs, raised, answers, consented_perms, args,
                   environ_at_build, version_at_build, spawned>>

\* __aexit__ cleans up a running optional server
AexitCleanupOptional(s) ==
    /\ lifespan = "exiting"
    /\ optional[s] = "running"
    /\ optional' = [optional EXCEPT ![s] = "closed"]
    /\ UNCHANGED <<bank_sync, scheduler, host, app, inputs, pc, raised, answers,
                   consented_perms, args, environ_at_build, version_at_build,
                   spawned>>

\* __aexit__ returns once no server is left to clean up
AexitReturns ==
    /\ lifespan = "exiting"
    /\ \A i \in Instances : pc[i] # "running"
    /\ \A s \in OptionalServers : optional[s] # "running"
    /\ lifespan' = "stopped"
    /\ UNCHANGED <<bank_sync, scheduler, optional, host, inputs, pc, raised, answers, consented_perms, args,
                   environ_at_build, version_at_build, spawned, mcp_context,
                   mcp_servers, chat_responses>>

LifespanNext ==
    \/ \E key \in OpenAIKeys : LifespanStartup(key)
    \/ \E i \in Instances : LifespanCreate(i)
    \/ \E i \in Instances, answer \in get_user_consent : AskConsent(i, answer)
    \/ \E i \in Instances : Build(i)
    \/ \E s \in OptionalServers : LifespanOptional(s)
    \/ LifespanEnter
    \/ \E i \in Instances : AenterConnect(i)
    \/ \E i \in Instances : AenterRaises(i)
    \/ AenterReturns
    \/ \E i \in Instances : ChildExits(i)
    \/ \E outcome \in {200, 500} : chat(outcome)
    \/ LifespanShutdown
    \/ \E i \in Instances : AexitCleanup(i)
    \/ AexitReturns

LifespanSpec == Init /\ [][LifespanNext]_vars

\* the .env files of the API: the credentials lifespan looks at, each unset,
\* empty or set
StartupDotenvFiles ==
    {file \in DotenvFiles :
        file["AMADEUS_API_KEY"] = None /\ file["AMADEUS_API_SECRET"] = None}

\* the API from its start to its shutdown, with the optional servers
StartupNext ==
    \/ ProcessStart(StartupDotenvFiles)
    \/ \E key \in OpenAIKeys : LifespanStartup(key)
    \/ \E i \in Instances : LifespanCreate(i)
    \/ \E i \in Instances, answer \in get_user_consent : AskConsent(i, answer)
    \/ \E i \in Instances : Build(i)
    \/ \E s \in OptionalServers : LifespanOptional(s)
    \/ LifespanEnter
    \/ \E i \in Instances : AenterConnect(i)
    \/ \E i \in Instances : AenterRaises(i)
    \/ \E s \in OptionalServers, ok \in BOOLEAN : AenterOptional(s, ok)
    \/ AenterReturns
    \/ LifespanShutdown
    \/ \E i \in Instances : AexitCleanup(i)
    \/ \E s \in OptionalServers : AexitCleanupOptional(s)
    \/ AexitReturns

StartupSpec == Init /\ [][StartupNext]_vars

\* the event loop runs an awaited __aexit__ to its end
FairLifespanSpec ==
    /\ LifespanSpec
    /\ WF_vars(\E i \in Instances : AexitCleanup(i))
    /\ WF_vars(AexitReturns)

\* ------------------------------------------------ claims on the lifecycle
\* Unstarted, Running, Closed, Failed of a constructed server
Unstarted(i) == pc[i] = "built"
Running(i) == pc[i] = "running"

\* C15: a constructed server goes Unstarted -> Running -> (Closed | Failed):
\* it becomes Running only from Unstarted and with a new process, leaves
\* Unstarted only for Running or Failed, leaves Running only for Closed or
\* Failed, is Closed only by the teardown of the caller's shutdown, and once
\* Closed or Failed it stays so and gets no further process.
C15_Lifecycle ==
    [][\A i \in Instances :
        /\ (pc'[i] = "running" /\ pc[i] # "running") => pc[i] = "built"
        /\ spawned'[i] # spawned[i] =>
                (pc[i] = "built" /\ pc'[i] = "running" /\ spawned'[i] = spawned[i] + 1)
        /\ (pc[i] = "built" /\ pc'[i] # "built") => pc'[i] \in {"running", "failed"}
        /\ (pc[i] = "running" /\ pc'[i] # "running") => pc'[i] \in {"closed", "failed"}
        /\ (pc[i] # "closed" /\ pc'[i] = "closed") =>
                (pc[i] = "running" /\ lifespan = "exiting")
        /\ pc[i] \in {"closed", "failed"} => pc'[i] = pc[i]]_vars

C15_Witness ==
    /\ pc["A"] = "closed"
    /\ pc["B"] = "failed"
    /\ spawned["B"] = 1

\* C16: when the lifespan has stopped no server is Running, and a teardown
\* that has begun is carried through: the lifespan stops, every server that
\* was Running then being Closed or Failed.
C16_ShutdownTerminates ==
    /\ [](lifespan = "stopped" => \A i \in Instances : ~Running(i))
    /\ (lifespan = "exiting") ~> (lifespan = "stopped")

C16_Witness ==
    /\ lifespan = "stopped"
    /\ pc["A"] = "closed"
    /\ pc["B"] = "closed"
    /\ mcp_servers = "servers_list"

\* C17: no server ever gets a second process; once a server could not be
\* spawned at startup, app.state.mcp_servers is None, every chat request has
\* been answered 503, and the servers after the failed one stay Unstarted
\* without a process.
C17_NoAutomaticRetry ==
    \A i \in Instances :
        /\ spawned[i] <= 1
        /\ (pc[i] = "failed" /\ spawned[i] = 0) =>
            /\ mcp_servers = None
            /\ \A k \in 1..Len(chat_responses) : chat_responses[k] = 503
            /\ \A j \in Instances :
                    i \in Earlier(j) => (Unstarted(j) /\ spawned[j] = 0)

C17_Witness ==
    /\ pc["A"] = "failed"
    /\ spawned["A"] = 0
    /\ Unstarted("B")
    /\ chat_responses = <<503, 503>>
    /\ lifespan = "stopped"

\* ------------------------------------- several constructor calls in flight
\* constructor calls two callers make side by side: the manifest, the
\* remaining arguments and the runtime permissions
ConcurrentCalls ==
    {<<sqlite_manifest, DatabaseOptions, <<fs>>>> :
        fs \in {p \in FSAccess : p.container_path = None}}
    \cup {<<sms_manifest, DefaultOptions, perms>> :
            perms \in {<<d>> : d \in DomainPort}
                      \cup {<<e>> : e \in EnvironmentVariable}
                      \cup {<<d, e>> : d \in DomainPort, e \in EnvironmentVariable}}

\* a caller invokes the constructor with one of the concurrent calls
ConcurrentConstruct(i) ==
    /\ pc[i] = "new"
    /\ \E c \in ConcurrentCalls :
            Construct(i, c[1], c[3], c[2].runtime_args,
                      c[2].static_environment_vars,
                      c[2].remove_container_after_run)

ConcurrentNext ==
    \/ \E i \in Instances : ConcurrentConstruct(i)
    \/ \E i \in Instances, answer \in get_user_consent : AskConsent(i, answer)
    \/ \E i \in Instances : Build(i)
    \/ \E n \in EnvNames, v \in EnvValues \cup {None} : SetEnviron(n, v)
    \/ \E version \in SandboxVersions : set_sandbox_version(version)

ConcurrentSpec == Init /\ [][ConcurrentNext]_vars

\* ---------------------------------------- claims on independent invocations
\* permission p shows in the built spec of object i
InSpec(i, p) ==
    CASE p.kind = "FSAccess" ->
            \E k \in 1..Len(PermissionMounts(i)) :
                /\ MountOption(PermissionMounts(i)[k], "src") = <<p.path>>
                /\ MountOption(PermissionMounts(i)[k], "dst") =
                        <<IF p.container_path # None THEN p.container_path ELSE p.path>>
                /\ p.write <=>
                    (Count(MountOptions(PermissionMounts(i)[k]), <<"readonly">>) = 0)
      [] p.kind = "EnvironmentVariable" -> AssignmentsOf(i, p.name) # <<>>
      [] OTHER -> Count(EgressEntries(i), HostPortOf(p)) > 0

\* the set of permissions in a list
Members(perms) == {perms[k] : k \in 1..Len(perms)}

\* C18: every constructed object has asked once for each of its own requested
\* permissions, its forwarded permissions are those its own answers allowed,
\* and a permission it was not granted does not show in its spec, whatever was
\* granted to the other object before or after.
C18_ConsentNotCached ==
    \A i \in Instances :
        Built(i) =>
            /\ Len(answers[i]) = Len(runtime_permissions[i])
            /\ consented_perms[i] = Granted(i)
            /\ \A p \in RuntimePermission :
                    InSpec(i, p) <=> p \in Members(Granted(i))

C18_Witness ==
    \E p \in RuntimePermission :
        /\ Built("A") /\ Built("B")
        /\ runtime_permissions["A"] = runtime_permissions["B"]
        /\ p \in Members(Granted("A"))
        /\ p \in Members(runtime_permissions["B"])
        /\ p \notin Members(Granted("B"))
        /\ InSpec("A", p) /\ ~InSpec("B", p)

\* the vector object i gets when it is constructed on its own
BuiltAlone(i) ==
    docker_args(manifest[i], Granted(i), environ_at_build[i],
                static_environment_vars[i], remove_container_after_run[i],
                runtime_args[i], version_at_build[i])

ValuesRead(i) ==
    {<<p.name, environ_at_build[i][p.name]>> :
        p \in {q \in Members(consented_perms[i]) : q.kind = "EnvironmentVariable"}}

\* two built objects were given the same builder inputs
SameInputs(i, j) ==
    /\ Built(i) /\ Built(j)
    /\ manifest[i] = manifest[j]
    /\ consented_perms[i] = consented_perms[j]
    /\ runtime_args[i] = runtime_args[j]
    /\ static_environment_vars[i] = static_environment_vars[j]
    /\ remove_container_after_run[i] = remove_container_after_run[j]
    /\ ValuesRead(i) = ValuesRead(j)

\* C20 as stated: two builds with the same manifest, consented permissions,
\* caller arguments and host-environment values give identical vectors,
\* whatever constructor or configuration calls happened before or between.
C20_SameInputsSameVector ==
    \A i, j \in Instances : SameInputs(i, j) => args[i] = args[j]

\* C20 amended: two builds with the same manifest, consented permissions,
\* caller arguments, host-environment values and the same _sandbox_version in
\* force at build time give identical vectors; builds under different versions
\* differ in the image reference only.
C20_SameInputsAndVersionSameVector ==
    \A i, j \in Instances :
        SameInputs(i, j) =>
            /\ version_at_build[i] = version_at_build[j] => args[i] = args[j]
            /\ Len(args[i]) = Len(args[j])
            /\ \A k \in 1..Len(args[i]) :
                    args[i][k] # args[j][k] =>
                        (k \in ImagePositions(i) /\ k \in ImagePositions(j))

C20_Witness ==
    /\ SameInputs("A", "B")
    /\ version_at_build["A"] = "0.3.1"
    /\ version_at_build["B"] = "0.3.1"
    /\ AssignmentsOf("A", "NOTIFICATION_PHONE") # <<>>
    /\ Len(EgressEntries("B")) = 1
    /\ environ_at_build["A"] # environ
    /\ args["A"] = args["B"]

\* ------------------------------- constructor calls around set_sandbox_version
\* two callers construct and start servers while the version is reconfigured
VersionNext ==
    \/ \E i \in Instances : ConcurrentConstruct(i)
    \/ \E i \in Instances, answer \in get_user_consent : AskConsent(i, answer)
    \/ \E i \in Instances : Build(i)
    \/ \E i \in Instances : Start(i)
    \/ \E version \in SandboxVersions : set_sandbox_version(version)

VersionSpec == Init /\ [][VersionNext]_vars

\* the version tag of the image reference of a built object
ImageTag(i) ==
    LET ref == args[i][CHOOSE k \in ImagePositions(i) : TRUE]
    IN  ref[Len(ref)]

\* C21: once the constructor has returned, no later step changes the object's
\* argument vector, whether the object is started or not; set_sandbox_version
\* leaves every built vector as it is, and the image tag of a vector is the
\* version that was in force when it was built.
C21_WriteOnce ==
    /\ [][\A i \in Instances : Built(i) => args'[i] = args[i]]_vars
    /\ [](\A i \in Instances : Built(i) => ImageTag(i) = version_at_build[i])

C21_Witness ==
    /\ pc["A"] = "running"
    /\ Built("B")
    /\ ImageTag("A") = "latest"
    /\ ImageTag("B") = "0.3.1"
    /\ sandbox_version = "latest"

\* ------------------------------------------------- claims on the API start-up
\* every prompt of object i has been answered
AllAsked(i) == Len(answers[i]) = Len(runtime_permissions[i])

C23_SqliteRequestsOneMount ==
    \A i \in Instances :
        /\ pc[i] # "raised"
        /\ pc[i] # "new" =>
            /\ manifest[i] = sqlite_manifest
            /\ runtime_permissions[i] =
                <<[kind |-> "FSAccess", path |-> "/data",
                   write |-> (i # servers_list[1]), container_path |-> None]>>
        /\ Built(i) =>
            LET mounts == Mounts(i)
                p == CHOOSE k \in ImagePositions(i) : TRUE
            IN  /\ Len(mounts) = (IF answers[i] = <<TRUE>> THEN 1 ELSE 0)
                /\ \A k \in 1..Len(mounts) :
                        /\ MountOption(mounts[k], "src") = <<"/data">>
                        /\ (i = servers_list[1]) <=>
                                (Count(MountOptions(mounts[k]), <<"readonly">>) = 1)
                /\ SubSeq(args[i], p + 1, Len(args[i])) = << <<"/data/spendwise.db">> >>

C23_Witness ==
    /\ Built("A") /\ Built("B")
    /\ Len(Mounts("A")) = 1
    /\ Len(Mounts("B")) = 1
    /\ Count(MountOptions(Mounts("A")[1]), <<"readonly">>) = 1
    /\ Count(MountOptions(Mounts("B")[1]), <<"readonly">>) = 0

\* --------------------------------------------- claims on the server factories
\* C24: a factory raises ValueError exactly when one of its required host
\* variables is unset or empty - the three Twilio variables for the SMS
\* server, FMP_API_KEY for the stock server, OPENWEATHER_API_KEY for the
\* travel server - and it does so before the constructor is entered: no
\* prompt has been issued and no spec has been built.  The travel server
\* requests the two Amadeus variables exactly when both are set and non-empty.
C24_FactoriesCheckCredentialsFirst ==
    \A i \in Instances :
        /\ pc[i] = "ValueError" =>
            /\ raised[i] # <<>>
            /\ \A k \in 1..Len(raised[i]) : ~Truthy(environ[raised[i][k]])
            /\ manifest[i] = NoManifest
            /\ runtime_permissions[i] = <<>>
            /\ answers[i] = <<>>
            /\ args[i] = <<>>
        /\ pc[i] \notin {"new", "ValueError"} =>
            /\ manifest[i] = sms_manifest =>
                \A n \in {"TWILIO_ACCOUNT_SID", "TWILIO_AUTH_TOKEN",
                          "TWILIO_PHONE_NUMBER"} : Truthy(environ[n])
            /\ manifest[i] = stock_manifest => Truthy(environ["FMP_API_KEY"])
            /\ manifest[i] = travel_manifest =>
                /\ Truthy(environ["OPENWEATHER_API_KEY"])
                /\ \A n \in {"AMADEUS_API_KEY", "AMADEUS_API_SECRET"} :
                      (\E k \in 1..Len(runtime_permissions[i]) :
                            runtime_permissions[i][k] = Variable(n))
                      <=> (/\ Truthy(environ["AMADEUS_API_KEY"])
                           /\ Truthy(environ["AMADEUS_API_SECRET"]))

\* the SMS factory has refused an empty phone number
C24_Witness ==
    /\ pc["A"] = "ValueError"
    /\ raised["A"] = <<"TWILIO_PHONE_NUMBER">>
    /\ environ["TWILIO_PHONE_NUMBER"] = ""
    /\ Truthy(environ["TWILIO_ACCOUNT_SID"])

\* ----------------------------------------- claims on the API's optional servers
\* the credentials of optional server s are complete
Complete(s) == missing(environ, RequiredVars(s)) = <<>>

\* no docker process failed to start
AllSpawned ==
    /\ \A i \in Instances : pc[i] # "failed"
    /\ \A s \in OptionalServers : optional[s] # "failed"

\* C25: with OPENAI_API_KEY set, whatever the other host variables hold, once
\* startup is over the two SQLite servers and every optional server whose
\* credentials are complete have been created and started, and
\* app.state.mcp_servers is not null; incomplete credentials disable only the
\* server they belong to.
C25_IncompleteCredentialsDisableOneServer ==
    (lifespan = "serving" /\ pc["A"] # "new" /\ AllSpawned) =>
        /\ mcp_servers # None
        /\ \A i \in Instances : pc[i] = "running"
        /\ \A s \in OptionalServers : Complete(s) => optional[s] = "running"

\* C26: __aexit__ of the MCPServers context is invoked at shutdown only for a
\* context that was entered successfully at startup, that is, one whose
\* __aenter__ returned the servers stored in app.state.mcp_servers; it is
\* never invoked on a context whose __aenter__ raised.
C26_TeardownOnlyAfterEnter ==
    lifespan = "exiting" => mcp_servers # None

\* --------------------------------------- environment and network of one spec
\* constructor calls that differ in what the manifest declares and in the
\* static variables: a manifest declaring nothing, a registry manifest and the
\* development manifest declaring network and environment access
PassThroughCalls ==
    {<<m, o>> :
        m \in {NoManifest, sms_manifest}
              \cup {r \in MCPManifest : r.permissions =
                        {"MCP_AC_NETWORK_CLIENT", "MCP_AC_SYSTEM_ENV_READ"}},
        o \in {DefaultOptions, CustomOptions}}

\* the permission lists of these calls: network destinations and variables
PassThroughLists ==
    ListsUpTo(DomainPort \cup HostPort \cup EnvironmentVariable, MaxPerms)

\* a caller invokes the constructor with one of these calls
PassThroughConstruct(i) ==
    /\ pc[i] = "new"
    /\ \E c \in PassThroughCalls, perms \in PassThroughLists :
            Construct(i, c[1], perms, c[2].runtime_args,
                      c[2].static_environment_vars,
                      c[2].remove_container_after_run)

PassThroughNext ==
    \/ \E i \in Caller : PassThroughConstruct(i)
    \/ \E i \in Caller, answer \in get_user_consent : AskConsent(i, answer)
    \/ \E i \in Caller : Build(i)
    \/ \E n \in EnvNames, v \in EnvValues \cup {None} : SetEnviron(n, v)

PassThroughSpec == Init /\ [][PassThroughNext]_vars

\* the keys the builder assigns on its own account
Markers == {"PACKAGE", "ALLOWED_EGRESS", "PRE_INSTALLED", "EXE"}

\* the "KEY=value" string of a static pair
StaticPair(kv) == <<kv.k, "=", kv.v>>

\* C27: every environment assignment of a built spec is a fixed marker
\* (PACKAGE, ALLOWED_EGRESS, PRE_INSTALLED, EXE), a caller-supplied static pair,
\* or NAME=value for a consented environment permission naming NAME, with the
\* value the host environment gave for NAME; there is one assignment per
\* consented environment permission and none for a variable that was denied
\* or not requested.  Every static pair is emitted, whatever the manifest
\* declares, and no prompt is issued for it.
C27_HostValuesOnlyByConsent ==
    \A i \in Instances :
        Built(i) =>
            LET assigned == Assignments(i)
                variables == SelectSeq(Granted(i), IsEnvironmentVariable)
                static == static_environment_vars[i]
                IsStatic(e) == \E k \in 1..Len(static) : e = StaticPair(static[k])
                IsPassThrough(e) ==
                    \E k \in 1..Len(variables) :
                        /\ KeyOf(e) = variables[k].name
                        /\ ValueOf(e) = <<Str(environ_at_build[i][variables[k].name])>>
            IN  /\ \A e \in 1..Len(assigned) :
                        \/ KeyOf(assigned[e]) \in Markers
                        \/ IsStatic(assigned[e])
                        \/ IsPassThrough(assigned[e])
                /\ \A n \in DOMAIN environ :
                        Len(AssignmentsOf(i, n)) =
                            Len(SelectSeq(variables, LAMBDA p : p.name = n))
                /\ \A k \in 1..Len(static) :
                        Count(assigned, StaticPair(static[k])) = 1
                /\ Len(answers[i]) = Len(runtime_permissions[i])

\* a spec with a static pair and a set host variable that was asked for and
\* denied
C27_Witness ==
    \E i \in Instances, n \in EnvNames :
        /\ Built(i)
        /\ static_environment_vars[i] # <<>>
        /\ environ_at_build[i][n] # None
        /\ \E k \in 1..Len(runtime_permissions[i]) :
                runtime_permissions[i][k] = [kind |-> "EnvironmentVariable", name |-> n]
        /\ AssignmentsOf(i, n) = <<>>

\* C28: a built spec assigns ALLOWED_EGRESS exactly when at least one network
\* permission was consented, at most once and never with an empty value; with
\* no network permission consented the assignment is absent.  The capability
\* flag --cap-add=NET_ADMIN is in every built spec, network or not.
C28_EgressPresentIffNetworkConsented ==
    \A i \in Instances :
        Built(i) =>
            LET egress == AssignmentsOf(i, "ALLOWED_EGRESS")
                network == SelectSeq(Granted(i), IsNetwork)
            IN  /\ (egress # <<>>) <=> (network # <<>>)
                /\ Len(egress) <= 1
                /\ \A e \in 1..Len(egress) : ValueOf(egress[e]) # <<>>
                /\ Count(args[i], <<"--cap-add=NET_ADMIN">>) = 1

\* a spec built after every requested network permission was denied: the
\* assignment is absent, the capability flag is there
C28_Witness ==
    \E i \in Instances :
        /\ Built(i)
        /\ SelectSeq(runtime_permissions[i], IsNetwork) # <<>>
        /\ SelectSeq(Granted(i), IsNetwork) = <<>>
        /\ AssignmentsOf(i, "ALLOWED_EGRESS") = <<>>
        /\ Count(args[i], <<"--cap-add=NET_ADMIN">>) = 1

\* ------------------------------------------------------ scripts/bank_sync.py
\* the state of the sandbox launcher and of the API, which bank_sync's loop
\* and MockBank's scheduler leave alone
launcher == <<host, inputs, app, pc, raised, answers, consented_perms, args,
              environ_at_build, version_at_build, spawned, optional>>

\* transaction references, in the order MockBank's API lists them
\* (ORDER BY date DESC, reference DESC)
References == <<"TXN-C3", "TXN-B2", "TXN-A1">>

\* the elements of a sequence
Range(seq) == {seq[k] : k \in 1..Len(seq)}

\* MockBank: db.create_transaction stores a transaction under a new reference
BankCreates(ref) ==
    /\ ref \notin mockbank
    /\ mockbank' = mockbank \cup {ref}
    /\ UNCHANGED <<launcher, scheduler, local_db, online, sync>>

\* MockBank: db.delete_transaction(reference)
BankDeletes(ref) ==
    /\ ref \in mockbank
    /\ mockbank' = mockbank \ {ref}
    /\ UNCHANGED <<launcher, scheduler, local_db, online, sync>>

\* MockBank is stopped or started
BankSwitches ==
    /\ online' = ~online
    /\ UNCHANGED <<launcher, scheduler, local_db, mockbank, sync>>

\* SpendWise: a CSV import stores a transaction under a reference of its own
csv_import(ref) ==
    /\ ref \notin local_db
    /\ local_db' = local_db \cup {ref}
    /\ UNCHANGED <<launcher, scheduler, mockbank, online, sync>>

\* fetch_mockbank_transactions(): data.get("transactions", []) of the answer,
\* [] when the request fails (answered is false) or MockBank is not there
fetch_mockbank_transactions(answered) ==
    IF online /\ answered
    THEN LET listed == SelectSeq(References, LAMBDA ref : ref \in mockbank)
         IN  [k \in 1..Len(listed) |-> [reference |-> listed[k]]]
    ELSE <<>>

\* variant: an empty answer is taken as "the bank holds nothing"
check_for_deleted_transactions_trusting_empty(local_refs, all_transactions) ==
    LET bank_refs == {tx.reference : tx \in {t \in Range(all_transactions) :
                                                Truthy(t.reference)}}
    IN  <<{ref \in local_refs : ref \notin bank_refs}, TRUE>>

\* check_for_deleted_transactions() after its two reads: (deleted_refs,
\* bank_reachable).  deleted_refs, a list built by iterating a set, is kept
\* as the set of its elements.
check_for_deleted_transactions(local_refs, all_transactions) ==
    IF all_transactions = <<>>
    THEN IF local_refs # {} THEN <<{}, FALSE>> ELSE <<{}, TRUE>>
    ELSE LET bank_refs == {tx.reference : tx \in {t \in Range(all_transactions) :
                                                    Truthy(t.reference)}}
         IN  <<{ref \in local_refs : ref \notin bank_refs}, TRUE>>

\* delete_local_transactions(references): the table after
\* DELETE FROM transactions WHERE reference IN (references)
delete_local_transactions(db, references) ==
    IF references = {} THEN db ELSE db \ references

\* the loop enters check_for_deleted_transactions: get_local_references(),
\* then the request to MockBank is awaited
SyncBegin ==
    /\ sync.pc = "idle"
    /\ sync' = [IdleSync EXCEPT !.pc = "fetching", !.local_refs = local_db]
    /\ UNCHANGED <<launcher, scheduler, local_db, mockbank, online>>

\* the request is over: check_for_deleted_transactions returns, and the loop
\* skips the deletion when the bank was not reachable and deletes the
\* returned references otherwise
SyncDelete(answered) ==
    /\ sync.pc = "fetching"
    /\ LET all_transactions == fetch_mockbank_transactions(answered)
           result == check_for_deleted_transactions(sync.local_refs, all_transactions)
           deleted_refs == result[1]
           bank_reachable == result[2]
       IN  /\ sync' = [sync EXCEPT !.pc = "importing",
                                   !.all_transactions = all_transactions,
                                   !.deleted_refs = deleted_refs,
                                   !.bank_reachable = bank_reachable]
           /\ local_db' = IF ~bank_reachable THEN local_db
                          ELSE delete_local_transactions(local_db, deleted_refs)
    /\ UNCHANGED <<launcher, scheduler, mockbank, online>>

\* check_for_new_transactions() and the import agent: the listed transactions
\* with a reference the local table does not hold are inserted, unless the
\* agent's run fails
SyncImport(answered, imported) ==
    /\ sync.pc = "importing"
    /\ LET all_transactions == fetch_mockbank_transactions(answered)
           new_transactions ==
               SelectSeq(all_transactions,
                         LAMBDA tx : Truthy(tx.reference) /\ tx.reference \notin local_db)
       IN  local_db' = IF imported
                       THEN local_db \cup {tx.reference : tx \in Range(new_transactions)}
                       ELSE local_db
    /\ sync' = [sync EXCEPT !.pc = "idle"]
    /\ UNCHANGED <<launcher, scheduler, mockbank, online>>

BankSyncNext ==
    \/ \E ref \in Range(References) : BankCreates(ref)
    \/ \E ref \in Range(References) : BankDeletes(ref)
    \/ BankSwitches
    \/ \E ref \in Range(References) : csv_import(ref)
    \/ SyncBegin
    \/ \E answered \in BOOLEAN : SyncDelete(answered)
    \/ \E answered \in BOOLEAN, imported \in BOOLEAN : SyncImport(answered, imported)

BankSyncSpec == Init /\ [][BankSyncNext]_vars

\* ------------------------------------------------------ claims on bank_sync
\* the references of a fetched list
Listed(all_transactions) == {tx.reference : tx \in Range(all_transactions)}

\* C29: in an iteration whose fetch failed or returned no transactions while
\* the local table held a reference, check_for_deleted_transactions returns
\* ([], False) and no local transaction is deleted; in an iteration whose fetch
\* returned transactions, the references deleted are exactly the local
\* references that the fetched list does not contain, so none that the bank
\* returned.
C29_NoDeletionWhenBankUnreachable ==
    [][sync.pc = "fetching" /\ sync'.pc = "importing" =>
        /\ (sync'.all_transactions = <<>> /\ sync.local_refs # {}) =>
                /\ sync'.deleted_refs = {}
                /\ ~sync'.bank_reachable
        /\ sync'.all_transactions = <<>> => local_db' = local_db
        /\ sync'.all_transactions # <<>> =>
                /\ local_db \ local_db' = sync.local_refs \ Listed(sync'.all_transactions)
                /\ local_db' \subseteq local_db
                /\ Listed(sync'.all_transactions) \cap local_db \subseteq local_db']_vars

\* an iteration that found MockBank unreachable and left the local
\* references, which the bank does not list, in place
C29_Witness ==
    /\ sync.pc = "importing"
    /\ ~sync.bank_reachable
    /\ sync.local_refs # {}
    /\ local_db = sync.local_refs
    /\ ~online
    /\ local_db \cap mockbank = {}

\* ------------------------------------------------------ MockBank/scheduler.py
\* most rows the recurring_transactions table gets
MaxRecurring == 2

\* the calendar days date.today() passes through: a Monday and the Tuesday
\* after it (weekday: 0 = Monday).  Day numbers are only compared for
\* equality, with each other and with None; they are written as numerals.
Dates ==
    <<[iso |-> "2025-06-02", weekday |-> "0", day |-> "2", month |-> "6"],
      [iso |-> "2025-06-03", weekday |-> "1", day |-> "3", month |-> "6"]>>

\* the recurring transactions the /recurring/add form can create: weekly on
\* Mondays, monthly on the 3rd, monthly without a day, yearly on June 2nd
RecurringCreate ==
    {[description |-> "GYM", frequency |-> "weekly", day_of_week |-> "0",
      day_of_month |-> None, month |-> None, day_of_year |-> None],
     [description |-> "RENT", frequency |-> "monthly", day_of_week |-> None,
      day_of_month |-> "3", month |-> None, day_of_year |-> None],
     [description |-> "DRAFT", frequency |-> "monthly", day_of_week |-> None,
      day_of_month |-> None, month |-> None, day_of_year |-> None],
     [description |-> "INSURANCE", frequency |-> "yearly", day_of_week |-> None,
      day_of_month |-> None, month |-> "6", day_of_year |-> "2"]}

\* should_execute_today(recurring, today)
should_execute_today(rec, date) ==
    IF rec.frequency = "weekly" THEN date.weekday = rec.day_of_week
    ELSE IF rec.frequency = "monthly"
    THEN (IF rec.day_of_month = None THEN FALSE ELSE date.day = rec.day_of_month)
    ELSE IF rec.frequency = "yearly"
    THEN date.month = rec.month /\ date.day = rec.day_of_year
    ELSE FALSE

\* already_executed_today(recurring, today)
already_executed_today(rec, date) ==
    IF ~Truthy(rec.last_executed) THEN FALSE ELSE rec.last_executed = date.iso

\* the loop of check_recurring_transactions from position k of its list: the
\* first entry it executes, Len + 1 when it executes none
RECURSIVE NextExecuted(_, _, _)
NextExecuted(recurring_list, k, date) ==
    IF k > Len(recurring_list) THEN k
    ELSE IF /\ should_execute_today(recurring_list[k], date)
            /\ ~already_executed_today(recurring_list[k], date)
    THEN k
    ELSE NextExecuted(recurring_list, k + 1, date)

\* the frame of a run that has reached position k of its list
Frame(recurring_list, k, day) ==
    IF k > Len(recurring_list) THEN IdleRun
    ELSE [pc |-> "create", today |-> day, recurring_list |-> recurring_list, k |-> k]

\* POST /recurring/add: db.create_recurring(rec); the row gets the next id,
\* is active and has never been executed
add_recurring(rec) ==
    /\ Len(recurring) < MaxRecurring
    /\ \A j \in 1..Len(recurring) : recurring[j].description # rec.description
    /\ recurring' = Append(recurring,
            [id |-> Len(recurring) + 1, description |-> rec.description,
             frequency |-> rec.frequency, day_of_week |-> rec.day_of_week,
             day_of_month |-> rec.day_of_month, month |-> rec.month,
             day_of_year |-> rec.day_of_year, is_active |-> 1,
             last_executed |-> None])
    /\ UNCHANGED <<launcher, bank_sync, transactions, today, runs>>

\* the calendar day changes
Midnight ==
    /\ today < Len(Dates)
    /\ today' = today + 1
    /\ UNCHANGED <<launcher, bank_sync, recurring, transactions, runs>>

\* a thread enters check_recurring_transactions: today = date.today(),
\* recurring_list = db.get_all_recurring(active_only=True), and the loop runs
\* up to the first entry it executes
check_recurring_transactions(r) ==
    /\ runs[r].pc = "idle"
    /\ LET recurring_list == SelectSeq(recurring, LAMBDA rec : rec.is_active = 1)
       IN  runs' = [runs EXCEPT ![r] =
                Frame(recurring_list,
                      NextExecuted(recurring_list, 1, Dates[today]), today)]
    /\ UNCHANGED <<launcher, bank_sync, recurring, transactions, today>>

\* result = db.create_transaction(tx)
CreateTransaction(r) ==
    /\ runs[r].pc = "create"
    /\ transactions' = Append(transactions,
            [date |-> Dates[runs[r].today].iso,
             description |-> runs[r].recurring_list[runs[r].k].description])
    /\ runs' = [runs EXCEPT ![r].pc = "update"]
    /\ UNCHANGED <<launcher, bank_sync, recurring, today>>

\* db.update_recurring_last_executed(recurring["id"], today), and the loop
\* runs on to the next entry it executes
UpdateLastExecuted(r) ==
    /\ runs[r].pc = "update"
    /\ recurring' = [j \in 1..Len(recurring) |->
            IF recurring[j].id = runs[r].recurring_list[runs[r].k].id
            THEN [recurring[j] EXCEPT !.last_executed = Dates[runs[r].today].iso]
            ELSE recurring[j]]
    /\ runs' = [runs EXCEPT ![r] =
            Frame(runs[r].recurring_list,
                  NextExecuted(runs[r].recurring_list, runs[r].k + 1,
                               Dates[runs[r].today]),
                  runs[r].today)]
    /\ UNCHANGED <<launcher, bank_sync, transactions, today>>

SchedulerNext ==
    \/ \E rec \in RecurringCreate : add_recurring(rec)
    \/ Midnight
    \/ \E r \in Runners : check_recurring_transactions(r)
    \/ \E r \in Runners : CreateTransaction(r)
    \/ \E r \in Runners : UpdateLastExecuted(r)

SchedulerSpec == Init /\ [][SchedulerNext]_vars

\* ---------------------------------------------- claims on MockBank's scheduler
\* the bank transactions created for a recurring entry on a calendar day
ExecutionsOf(rec, date) ==
    {k \in 1..Len(transactions) :
        /\ transactions[k].description = rec.description
        /\ transactions[k].date = date.iso}

\* C30: whatever runs of check_recurring_transactions take place on a day and
\* however they overlap, a recurring entry has at most one bank transaction
\* for that day, and none for a day on which it is not due.
C30_AtMostOncePerDay ==
    \A j \in 1..Len(recurring), d \in 1..Len(Dates) :
        /\ Cardinality(ExecutionsOf(recurring[j], Dates[d])) <= 1
        /\ ~should_execute_today(recurring[j], Dates[d]) =>
                ExecutionsOf(recurring[j], Dates[d]) = {}
====
